---- MODULE Spec2Model ----
(***************************************************************************)
(* Model of fast64_internal/repo_settings.py: saving the scene's repo      *)
(* settings to a JSON file and loading them back, through the functions    *)
(* save_repo_settings / load_repo_settings and through the two operators   *)
(* SaveRepoSettings / LoadRepoSettings.                                    *)
(*                                                                         *)
(* Python values are tagged records [t, v] (t is "bool", "str", "float" or *)
(* "dict"); JSON text is a tree of tagged records [j, v] (j is "boolean",  *)
(* "string", "number", "object", "array" or "invalid").  json.dump and     *)
(* json.load are the conversions between the two.                          *)
(***************************************************************************)
EXTENDS Integers, Sequences, FiniteSets, TLC

VARIABLES scene, disk, last, saved, nSteps

vars == <<scene, disk, last, saved, nSteps>>

(* ---------------------------- bounds ----------------------------------- *)

\* number of steps taken: property edits, hand edits of the file, save and load calls
MaxSteps == 2

(* ---------------------------- constants -------------------------------- *)

CUR_VERSION == 1

RepoPath == "repo.json"
Paths == {"", RepoPath}
Games == {"", "SM64", "OOT"}
F3DTypes == {"F3DEX2/LX2", "F3DEX3", "T3D"}
PackedAlgs == {"simple", "complex"}
Blocks == {"b0", "b1"}
\* versions a settings file may carry
Versions == {CUR_VERSION - 1, CUR_VERSION, CUR_VERSION + 1}

(* ---------------------------- Python / JSON values --------------------- *)

PyBool(b) == [t |-> "bool", v |-> b]
PyStr(s) == [t |-> "str", v |-> s]
PyFloat(n) == [t |-> "float", v |-> n]
PyDict(d) == [t |-> "dict", v |-> d]

EmptyDict == [k \in {} |-> PyBool(TRUE)]

\* bool(x) of a Python value
Truthy(x) ==
    CASE x.t = "bool" -> x.v
      [] x.t = "str" -> x.v # ""
      [] x.t = "float" -> x.v # 0
      [] x.t = "dict" -> DOMAIN x.v # {}
      [] OTHER -> FALSE

\* dict.get(key, default)
Get(d, key, default) == IF key \in DOMAIN d THEN d[key] ELSE default

\* dict.update(other): the keys of other overwrite those of d
Update(d, other) == other @@ d

\* d[key] = value
SetItem(d, key, value) == (key :> value) @@ d

RECURSIVE json_dumps(_)
json_dumps(x) ==
    CASE x.t = "bool" -> [j |-> "boolean", v |-> x.v]
      [] x.t = "str" -> [j |-> "string", v |-> x.v]
      [] x.t = "float" -> [j |-> "number", v |-> x.v]
      [] x.t = "dict" -> [j |-> "object", v |-> [k \in DOMAIN x.v |-> json_dumps(x.v[k])]]

RECURSIVE json_loads(_)
json_loads(text) ==
    CASE text.j = "boolean" -> PyBool(text.v)
      [] text.j = "string" -> PyStr(text.v)
      [] text.j = "number" -> PyFloat(text.v)
      [] text.j = "object" -> PyDict([k \in DOMAIN text.v |-> json_loads(text.v[k])])
      [] text.j = "array" -> [t |-> "list", v |-> EmptyDict]

Garbage == [j |-> "invalid", v |-> EmptyDict]
EmptyArray == [j |-> "array", v |-> EmptyDict]

(* ---------------------------- file system ------------------------------ *)

Missing == [kind |-> "missing", text |-> Garbage]
Directory == [kind |-> "dir", text |-> Garbage]
File(text) == [kind |-> "file", text |-> text]



(* ---------------------------- scene ------------------------------------ *)

\* the values each scene property ranges over
PropValues ==
    [f3d_type |-> F3DTypes,
     saveTextures |-> BOOLEAN,
     exportInlineF3D |-> BOOLEAN,
     ignoreTextureRestrictions |-> BOOLEAN,
     packed_normals_algorithm |-> PackedAlgs,
     auto_repo_load_settings |-> BOOLEAN,
     rdp_defaults |-> Blocks,
     sm64 |-> Blocks,
     glTF |-> Blocks]

SceneProps == DOMAIN PropValues

DefaultScene ==
    [f3d_type |-> "F3DEX2/LX2",
     saveTextures |-> FALSE,
     exportInlineF3D |-> FALSE,
     ignoreTextureRestrictions |-> FALSE,
     packed_normals_algorithm |-> "simple",
     auto_repo_load_settings |-> TRUE,
     rdp_defaults |-> "b0",
     sm64 |-> "b0",
     glTF |-> "b0"]

NoSave == [valid |-> FALSE, scene |-> DefaultScene, game |-> "", by |-> "none"]

(* ---------------------------- collaborators ---------------------------- *)

\* utility.set_prop_if_in_data: setattr(holder, prop, data[key]) when the key is there
set_prop_if_in_data(holder, prop, data, key) ==
    IF key \in DOMAIN data THEN [holder EXCEPT ![prop] = data[key].v] ELSE holder

\* Fast64Settings_Properties.to_repo_settings / from_repo_settings
to_repo_settings(s) == SetItem(EmptyDict, "autoLoad", PyBool(s.auto_repo_load_settings))

from_repo_settings(s, data) ==
    set_prop_if_in_data(s, "auto_repo_load_settings", data, "autoLoad")

\* to_dict of a settings block (rdp_defaults, glTF) and save_sm64_repo_settings
block_to_dict(b) == PyDict(SetItem(EmptyDict, "cfg", PyStr(b)))

\* from_dict of a settings block and load_sm64_repo_settings: an empty dict changes nothing
block_from_dict(cur, d) == IF "cfg" \in DOMAIN d.v THEN d.v["cfg"].v ELSE cur

\* utility.filepath_checks on bpy.path.abspath(path)
filepath_checks(path, d) ==
    IF path = "" THEN "Repo settings file path is empty."
    ELSE IF d.kind = "missing" THEN "Repo settings file path does not exist."
    ELSE IF d.kind # "file" THEN "Repo settings file path is not a file."
    ELSE "ok"

(* ---------------------------- save_repo_settings ----------------------- *)


\* the file stamped with the next version
save_version_next == CUR_VERSION + 1

save_version == CUR_VERSION


\* the key written for every microcode
WritesPackedNormals_always(s) == TRUE

\* the key written for one of the two microcodes only
WritesPackedNormals_onlyF3DEX3(s) == s.f3d_type \in {"F3DEX3"}

WritesPackedNormals(s) == s.f3d_type \in {"F3DEX3", "T3D"}

SavesSM64(game) == game = "SM64"

save_data(s, game) ==
    LET d0 == SetItem(EmptyDict, "version", PyFloat(save_version))
        d1 == Update(d0, to_repo_settings(s))
        d2 == SetItem(d1, "microcode", PyStr(s.f3d_type))
        d3 == IF WritesPackedNormals(s)
              THEN SetItem(d2, "packedNormalsAlgorithm", PyStr(s.packed_normals_algorithm))
              ELSE d2
        d4 == SetItem(d3, "bleedAndInline", PyBool(s.exportInlineF3D))
        d5 == SetItem(d4, "saveTextures", PyBool(s.saveTextures))
        d6 == SetItem(d5, "ignoreTextureRestrictions", PyBool(s.ignoreTextureRestrictions))
        d7 == SetItem(d6, "rdpDefaults", block_to_dict(s.rdp_defaults))
        d8 == IF SavesSM64(game) THEN SetItem(d7, "sm64", block_to_dict(s.sm64)) ELSE d7
    IN  SetItem(d8, "glTF", block_to_dict(s.glTF))

\* the file after the call and how the call ended
save_repo_settings(s, d, path, game) ==
    IF path = "" \/ d.kind = "dir"
    THEN [disk |-> d, outcome |-> "OSError"]
    ELSE [disk |-> File(json_dumps(PyDict(save_data(s, game)))), outcome |-> "saved"]

(* ---------------------------- load_repo_settings ----------------------- *)

\* a parse failure swallowed, the load going on with an empty dict
read_json_swallowed(d) ==
    IF d.text.j = "invalid"
    THEN [exc |-> FALSE, data |-> PyDict(EmptyDict)]
    ELSE [exc |-> FALSE, data |-> json_loads(d.text)]

\* lines 68-72: json.load of the file, any failure re-raised
read_json(d) ==
    IF d.text.j = "invalid"
    THEN [exc |-> TRUE, data |-> PyDict(EmptyDict)]
    ELSE [exc |-> FALSE, data |-> json_loads(d.text)]


\* the autoLoad flag of the file honoured on every call
SkipsLoad_ignoresFlag(skip, data) == ~Truthy(Get(data, "autoLoad", PyBool(TRUE)))

SkipsLoad(skip, data) == Truthy(skip) /\ ~Truthy(Get(data, "autoLoad", PyBool(TRUE)))


\* the current version refused as well
VersionTooHigh_orEqual(data) == Get(data, "version", PyFloat(CUR_VERSION)).v >= CUR_VERSION

VersionTooHigh(data) == Get(data, "version", PyFloat(CUR_VERSION)).v > CUR_VERSION


\* the sub-loader run for every named game
LoadsSM64_anyGame(game) == game # ""

LoadsSM64(game) == game = "SM64"


\* saveTextures and exportInlineF3D read from each other's key
set_scene_props_swapped(s, data) ==
    LET s1 == set_prop_if_in_data(s, "f3d_type", data, "microcode")
        s2 == set_prop_if_in_data(s1, "saveTextures", data, "bleedAndInline")
        s3 == set_prop_if_in_data(s2, "exportInlineF3D", data, "saveTextures")
        s4 == set_prop_if_in_data(s3, "ignoreTextureRestrictions", data, "ignoreTextureRestrictions")
    IN  set_prop_if_in_data(s4, "packed_normals_algorithm", data, "packedNormalsAlgorithm")

\* lines 85-89
set_scene_props(s, data) ==
    LET s1 == set_prop_if_in_data(s, "f3d_type", data, "microcode")
        s2 == set_prop_if_in_data(s1, "saveTextures", data, "saveTextures")
        s3 == set_prop_if_in_data(s2, "exportInlineF3D", data, "bleedAndInline")
        s4 == set_prop_if_in_data(s3, "ignoreTextureRestrictions", data, "ignoreTextureRestrictions")
    IN  set_prop_if_in_data(s4, "packed_normals_algorithm", data, "packedNormalsAlgorithm")

Call(fn, arg) == [fn |-> fn, arg |-> arg]

\* lines 83-96: the scene after the settings are applied, and the sub-loader calls made
apply_settings(s, data, game) ==
    LET s1 == set_scene_props(from_repo_settings(s, data), data)
        rdp == Get(data, "rdpDefaults", PyDict(EmptyDict))
        s2 == [s1 EXCEPT !.rdp_defaults = block_from_dict(@, rdp)]
        sm == Get(data, "sm64", PyDict(EmptyDict))
        s3 == IF LoadsSM64(game) THEN [s2 EXCEPT !.sm64 = block_from_dict(@, sm)] ELSE s2
        gl == Get(data, "glTF", PyDict(EmptyDict))
        s4 == [s3 EXCEPT !.glTF = block_from_dict(@, gl)]
    IN  [scene |-> s4,
         calls |-> <<Call("rdp_defaults.from_dict", rdp)>>
                   \o (IF LoadsSM64(game) THEN <<Call("load_sm64_repo_settings", sm)>> ELSE <<>>)
                   \o <<Call("glTF.from_dict", gl)>>]

Result(s, outcome, calls) == [scene |-> s, outcome |-> outcome, calls |-> calls]

load_repo_settings(s, d, path, skip_if_no_auto_load, game) ==
    LET chk == filepath_checks(path, d)
        rd == read_json(d)
    IN  IF chk # "ok" THEN Result(s, chk, <<>>)
        ELSE IF rd.exc THEN Result(s, "Failed to load repo settings json.", <<>>)
        ELSE IF rd.data.t # "dict" THEN Result(s, "AttributeError", <<>>)
        ELSE IF SkipsLoad(skip_if_no_auto_load, rd.data.v) THEN Result(s, "skipped", <<>>)
        ELSE IF VersionTooHigh(rd.data.v) THEN Result(s, "ValueError", <<>>)
        ELSE LET a == apply_settings(s, rd.data.v, game)
             IN  Result(a.scene, "loaded", a.calls)

\* the call returned instead of raising
Returned(outcome) == outcome \in {"saved", "skipped", "loaded"}

(* ---------------------------- state machine ---------------------------- *)

NoReport == <<>>

Last(op, path, game, skip, outcome, calls, report) ==
    [op |-> op, path |-> path, game |-> game, skip |-> skip,
     outcome |-> outcome, calls |-> calls, report |-> report]

Idle(op) == Last(op, "", "", PyBool(FALSE), "none", <<>>, NoReport)

\* scenes the session may start from
Profile(f, x) ==
    [f3d_type |-> f,
     saveTextures |-> x,
     exportInlineF3D |-> ~x,
     ignoreTextureRestrictions |-> x,
     packed_normals_algorithm |-> IF x THEN "complex" ELSE "simple",
     auto_repo_load_settings |-> ~x,
     rdp_defaults |-> IF x THEN "b1" ELSE "b0",
     sm64 |-> IF x THEN "b0" ELSE "b1",
     glTF |-> IF x THEN "b1" ELSE "b0"]

InitScenes == {Profile(f, x) : f \in F3DTypes, x \in BOOLEAN}

\* the file on disk is what op wrote for scene s and this game, not edited since
SavedBy(s, game, op) == [valid |-> TRUE, scene |-> s, game |-> game, by |-> op]

\* the settings file is missing, or was written by an earlier save of some scene
Init ==
    /\ scene \in InitScenes
    /\ \/ disk = Missing /\ saved = NoSave
       \/ \E s \in InitScenes, game \in {"", "SM64"} :
             /\ disk = save_repo_settings(s, Missing, RepoPath, game).disk
             /\ saved = SavedBy(s, game, "save")
    /\ last = Idle("init")
    /\ nSteps = 0

\* the user changes one property in the editor
SetProp ==
    /\ nSteps < MaxSteps
    /\ \E p \in SceneProps : \E v \in PropValues[p] :
          /\ scene[p] # v
          /\ scene' = [scene EXCEPT ![p] = v]
    /\ nSteps' = nSteps + 1
    /\ last' = Idle("edit")
    /\ UNCHANGED <<disk, saved>>

FileEdit(d) ==
    /\ nSteps < MaxSteps
    /\ d # disk
    /\ disk' = d
    /\ nSteps' = nSteps + 1
    /\ saved' = NoSave
    /\ last' = Idle("file")
    /\ UNCHANGED scene

\* "You may edit your json file directly to take off properties you don't want to set on load"
RemoveKey ==
    /\ disk.kind = "file" /\ disk.text.j = "object"
    /\ \E k \in DOMAIN disk.text.v :
          FileEdit(File([j |-> "object",
                         v |-> [x \in DOMAIN disk.text.v \ {k} |-> disk.text.v[x]]]))

SetVersion ==
    /\ disk.kind = "file" /\ disk.text.j = "object"
    /\ \E n \in Versions :
          FileEdit(File([j |-> "object",
                         v |-> SetItem(disk.text.v, "version", [j |-> "number", v |-> n])]))

\* the file overwritten with text that is not JSON
Corrupt ==
    /\ disk.kind # "dir"
    /\ FileEdit(File(Garbage))

\* the file overwritten with JSON that is not an object
WriteArray ==
    /\ disk.kind # "dir"
    /\ FileEdit(File(EmptyArray))

DeleteFile ==
    /\ disk.kind = "file"
    /\ FileEdit(Missing)

\* a directory made where the file is expected
MakeDir ==
    /\ disk.kind = "missing"
    /\ FileEdit(Directory)

\* save_repo_settings(scene, path, game)
Save ==
    /\ nSteps < MaxSteps
    /\ \E path \in Paths, game \in Games :
          LET r == save_repo_settings(scene, disk, path, game)
          IN  /\ disk' = r.disk
              /\ saved' = IF r.outcome = "saved"
                          THEN SavedBy(scene, game, "save")
                          ELSE saved
              /\ last' = Last("save", path, game, PyBool(FALSE), r.outcome, <<>>, NoReport)
    /\ nSteps' = nSteps + 1
    /\ UNCHANGED scene

\* SaveRepoSettings.execute_operator
OpSave ==
    /\ nSteps < MaxSteps
    /\ \E path \in Paths, game \in Games :
          LET r == save_repo_settings(scene, disk, path, game)
          IN  /\ disk' = r.disk
              /\ saved' = IF r.outcome = "saved"
                          THEN SavedBy(scene, game, "SaveRepoSettings")
                          ELSE saved
              /\ last' = Last("SaveRepoSettings", path, game, PyBool(FALSE), r.outcome, <<>>,
                              IF Returned(r.outcome)
                              THEN <<"Saved repo settings to", path>> ELSE NoReport)
    /\ nSteps' = nSteps + 1
    /\ UNCHANGED scene

\* load_repo_settings(scene, path, skip_if_no_auto_load, game)
Load ==
    /\ nSteps < MaxSteps
    /\ \E path \in Paths, skip \in BOOLEAN, game \in Games :
          LET r == load_repo_settings(scene, disk, path, PyBool(skip), game)
          IN  /\ scene' = r.scene
              /\ last' = Last("load", path, game, PyBool(skip), r.outcome, r.calls, NoReport)
    /\ nSteps' = nSteps + 1
    /\ UNCHANGED <<disk, saved>>

\* LoadRepoSettings.execute_operator: load_repo_settings(context.scene, self.path, self.game)
OpLoad ==
    /\ nSteps < MaxSteps
    /\ \E path \in Paths, game \in Games :
          LET r == load_repo_settings(scene, disk, path, PyStr(game), "")
          IN  /\ scene' = r.scene
              /\ last' = Last("LoadRepoSettings", path, game, PyStr(game), r.outcome, r.calls,
                              IF Returned(r.outcome)
                              THEN <<"Loaded repo settings from", path>> ELSE NoReport)
    /\ nSteps' = nSteps + 1
    /\ UNCHANGED <<disk, saved>>

Next ==
    \/ SetProp
    \/ RemoveKey
    \/ SetVersion
    \/ Corrupt
    \/ WriteArray
    \/ DeleteFile
    \/ MakeDir
    \/ Save
    \/ OpSave
    \/ Load
    \/ OpLoad

Spec == Init /\ [][Next]_vars


(* ---------------------------- properties ------------------------------- *)

\* the scene property each top-level key of the file stands for
PropOfKey ==
    [microcode |-> "f3d_type",
     saveTextures |-> "saveTextures",
     bleedAndInline |-> "exportInlineF3D",
     ignoreTextureRestrictions |-> "ignoreTextureRestrictions",
     packedNormalsAlgorithm |-> "packed_normals_algorithm"]

TopKeys == DOMAIN PropOfKey

LoadOps == {"load", "LoadRepoSettings"}
SaveOps == {"save", "SaveRepoSettings"}

\* the file holds a JSON object
IsObjectFile(d) == d.kind = "file" /\ d.text.j = "object"

FileKeys(d) == DOMAIN d.text.v

\* the file holds "autoLoad": false
AutoLoadOff(d) == "autoLoad" \in FileKeys(d) /\ d.text.v["autoLoad"].v = FALSE

\* the file holds a "version" above the current one
VersionAbove(d) == "version" \in FileKeys(d) /\ d.text.v["version"].v > CUR_VERSION

\* a load_repo_settings call on the file the last save wrote, with the same game
RoundTrip(l) ==
    /\ l.op = "load" /\ l.path = RepoPath
    /\ saved.valid /\ l.game = saved.game

\* C1 (as stated): after save on S and load on T from the same path with the same
\* game, T's f3d_type, saveTextures, exportInlineF3D, ignoreTextureRestrictions and
\* packed_normals_algorithm all equal their values in S.
C1_RoundTripAll ==
    RoundTrip(last) =>
        /\ last.outcome = "loaded"
        /\ \A k \in TopKeys : scene[PropOfKey[k]] = saved.scene[PropOfKey[k]]

\* C1 (amended): after save on S and load on T, T's f3d_type, saveTextures,
\* exportInlineF3D and ignoreTextureRestrictions equal S's; packed_normals_algorithm
\* equals S's when S's f3d_type is F3DEX3 or T3D and otherwise keeps T's own value;
\* except that a load called with skip_if_no_auto_load true on a file saved from an S
\* whose auto_repo_load_settings is false returns without changing T at all.
C1_RoundTripAmended ==
    [][RoundTrip(last') =>
         IF Truthy(last'.skip) /\ ~saved.scene.auto_repo_load_settings
         THEN last'.outcome = "skipped" /\ scene' = scene
         ELSE /\ last'.outcome = "loaded"
              /\ \A k \in TopKeys \ {"packedNormalsAlgorithm"} :
                    scene'[PropOfKey[k]] = saved.scene[PropOfKey[k]]
              /\ IF saved.scene.f3d_type \in {"F3DEX3", "T3D"}
                 THEN scene'.packed_normals_algorithm = saved.scene.packed_normals_algorithm
                 ELSE scene'.packed_normals_algorithm = scene.packed_normals_algorithm]_vars

\* a round trip after which T's packed_normals_algorithm is still not S's
C1_Witness ==
    /\ RoundTrip(last) /\ last.outcome = "loaded"
    /\ scene.f3d_type = saved.scene.f3d_type
    /\ scene.packed_normals_algorithm # saved.scene.packed_normals_algorithm

\* C2: the Load operator run with game "SM64" on a file the Save operator wrote with
\* game "SM64"
\* invokes the SM64 sub-loader with the file's "sm64" block.
C2_OperatorRestoresSM64 ==
    (/\ last.op = "LoadRepoSettings" /\ last.game = "SM64" /\ last.path = RepoPath
     /\ saved.valid /\ saved.by = "SaveRepoSettings" /\ saved.game = "SM64")
    => \E i \in DOMAIN last.calls :
          /\ last.calls[i].fn = "load_sm64_repo_settings"
          /\ json_dumps(last.calls[i].arg) = disk.text.v["sm64"]

\* C3: a successful load leaves the property of every absent top-level key at the
\* value it had and sets the property of every present key to the file's value.
C3_MergeOnLoad ==
    [][(last'.op \in LoadOps /\ last'.outcome = "loaded") =>
         \A k \in TopKeys :
            IF k \in FileKeys(disk)
            THEN scene'[PropOfKey[k]] = disk.text.v[k].v
            ELSE scene'[PropOfKey[k]] = scene[PropOfKey[k]]]_vars

\* a successful load of a file with an absent key, and a present key whose value the load set
C3_Witness ==
    /\ last.op = "load" /\ last.outcome = "loaded"
    /\ \E k \in TopKeys : k \notin FileKeys(disk)
    /\ \E k \in TopKeys : k \in FileKeys(disk) /\ scene[PropOfKey[k]] = disk.text.v[k].v

\* C4 (as stated): a load of a file whose "version" is greater than CUR_VERSION
\* raises ValueError.
C4_VersionGateAlways ==
    (/\ last.op \in LoadOps /\ last.path = RepoPath
     /\ IsObjectFile(disk) /\ VersionAbove(disk))
    => last.outcome = "ValueError"

\* C4 (amended): a load of a file whose "version" is greater than CUR_VERSION raises
\* ValueError and leaves the scene unchanged, unless skip_if_no_auto_load is true and
\* the file's "autoLoad" is false; a file with no "version", or one not greater than
\* CUR_VERSION, never raises the version error.
C4_VersionGateAmended ==
    [][(last'.op \in LoadOps /\ last'.path = RepoPath /\ IsObjectFile(disk)) =>
         /\ (VersionAbove(disk) /\ ~(Truthy(last'.skip) /\ AutoLoadOff(disk)))
               => (last'.outcome = "ValueError" /\ scene' = scene)
         /\ ~VersionAbove(disk) => last'.outcome # "ValueError"]_vars

\* a load that raised the version error
C4_Witness ==
    /\ last.op = "load" /\ last.outcome = "ValueError"
    /\ IsObjectFile(disk) /\ VersionAbove(disk)

\* the path or the file is one load_repo_settings cannot read
Unreadable(path, d) ==
    \/ path = ""
    \/ d.kind = "missing"
    \/ d.kind = "dir"
    \/ d.kind = "file" /\ d.text.j = "invalid"

\* C5: a load from an empty path, a missing path, a directory or an unparsable file
\* raises (the parse failure as "Failed to load repo settings json.") and leaves the
\* whole scene as it was.
C5_FailedLoadLeavesScene ==
    [][(last'.op \in LoadOps /\ Unreadable(last'.path, disk)) =>
         /\ ~Returned(last'.outcome)
         /\ last'.outcome # "none"
         /\ (last'.path # "" /\ disk.kind = "file")
               => last'.outcome = "Failed to load repo settings json."
         /\ scene' = scene
         /\ last'.calls = <<>>]_vars

\* a load that failed on an unparsable file
C5_Witness ==
    /\ last.op = "load" /\ last.path = RepoPath
    /\ disk.kind = "file" /\ disk.text.j = "invalid"
    /\ last.outcome = "Failed to load repo settings json."

\* C6: with skip_if_no_auto_load true and "autoLoad" false in the file the load
\* returns without raising and without changing the scene, whatever the version;
\* an absent "autoLoad" never skips, and neither does a false skip_if_no_auto_load.
C6_AutoLoadOptOut ==
    [][(last'.op \in LoadOps /\ last'.path = RepoPath /\ IsObjectFile(disk)) =>
         /\ (Truthy(last'.skip) /\ AutoLoadOff(disk))
               => (last'.outcome = "skipped" /\ scene' = scene /\ last'.calls = <<>>)
         /\ "autoLoad" \notin FileKeys(disk) => last'.outcome # "skipped"
         /\ ~Truthy(last'.skip) => last'.outcome # "skipped"]_vars

\* a skipped load of a file whose version is above the current one
C6_Witness ==
    /\ last.op = "load" /\ last.skip = PyBool(TRUE) /\ last.outcome = "skipped"
    /\ VersionAbove(disk)

\* C7: a save writes "packedNormalsAlgorithm" exactly when f3d_type is F3DEX3 or T3D,
\* "sm64" exactly when game is "SM64", and always the seven other keys.
C7_KeysWritten ==
    (last.op \in SaveOps /\ last.outcome = "saved") =>
        /\ IsObjectFile(disk)
        /\ "packedNormalsAlgorithm" \in FileKeys(disk) <=> scene.f3d_type \in {"F3DEX3", "T3D"}
        /\ "sm64" \in FileKeys(disk) <=> last.game = "SM64"
        /\ {"version", "microcode", "bleedAndInline", "saveTextures",
            "ignoreTextureRestrictions", "rdpDefaults", "glTF"} \subseteq FileKeys(disk)

\* a save of a T3D scene for SM64
C7_Witness ==
    /\ last.op = "save" /\ last.outcome = "saved"
    /\ scene.f3d_type = "T3D" /\ last.game = "SM64"
    /\ "packedNormalsAlgorithm" \in FileKeys(disk)

\* the block a sub-loader is handed for a key: the file's, or an empty one
BlockFor(d, key) ==
    IF key \in FileKeys(d) THEN d.text.v[key] ELSE [j |-> "object", v |-> EmptyDict]

CalledWith(calls, fn, block) ==
    \E i \in DOMAIN calls : calls[i].fn = fn /\ json_dumps(calls[i].arg) = block

\* C8: a load with game other than "SM64" never runs the SM64 sub-loader and leaves
\* the SM64 settings alone; with game "SM64" the sub-loader gets the file's "sm64"
\* block, or an empty one; rdpDefaults and glTF are applied for every game.
C8_GameGating ==
    [][(last'.op = "load" /\ last'.outcome = "loaded") =>
         /\ last'.game # "SM64" =>
               /\ \A i \in DOMAIN last'.calls : last'.calls[i].fn # "load_sm64_repo_settings"
               /\ scene'.sm64 = scene.sm64
         /\ last'.game = "SM64" =>
               CalledWith(last'.calls, "load_sm64_repo_settings", BlockFor(disk, "sm64"))
         /\ CalledWith(last'.calls, "rdp_defaults.from_dict", BlockFor(disk, "rdpDefaults"))
         /\ CalledWith(last'.calls, "glTF.from_dict", BlockFor(disk, "glTF"))]_vars

\* a load for another game of a file whose "sm64" block differs from the scene's settings
C8_Witness ==
    /\ last.op = "load" /\ last.outcome = "loaded" /\ last.game = "OOT"
    /\ "sm64" \in FileKeys(disk)
    /\ disk.text.v["sm64"].v["cfg"].v # scene.sm64

\* C9: the Load operator reports "Loaded repo settings from <path>" only after the
\* file's settings were applied, never after a load that was skipped.
C9_ReportOnlyAfterLoad ==
    (last.op = "LoadRepoSettings" /\ last.report # NoReport) => last.outcome = "loaded"

\* C10: a save changes nothing in the scene and stamps the file with a version not
\* above CUR_VERSION, and no load of a file a save wrote raises the version error.
C10_SaveLoadable ==
    [][/\ last'.op \in SaveOps => scene' = scene
       /\ (last'.op \in SaveOps /\ last'.outcome = "saved") =>
             /\ "version" \in FileKeys(disk')
             /\ disk'.text.v["version"].v <= CUR_VERSION
       /\ (last'.op \in LoadOps /\ last'.path = RepoPath /\ saved.valid) =>
             last'.outcome # "ValueError"]_vars

\* a load, by the operator, of a file a save wrote, its settings applied
C10_Witness ==
    /\ last.op = "LoadRepoSettings" /\ saved.valid /\ last.outcome = "loaded"
    /\ disk.text.v["version"].v = CUR_VERSION

====
